---- MODULE Spec2Model ----
(***************************************************************************)
(* Model of tide.py (Moonee Beach tide CLI): the extractor                 *)
(* parse_tide_data, the calculator find_next_high_tide and                 *)
(* get_current_tide_status, and the run main -> display_tides.             *)
(*                                                                         *)
(* Time is counted in minutes.  A datetime is the number of minutes since  *)
(* midnight of day 0; a timedelta is a difference of two datetimes.        *)
(* Python floats are modelled by exact fractions [num, den] with den > 0.  *)
(* Heights are counted in hundredths of a metre.                           *)
(***************************************************************************)
EXTENDS Integers, Sequences, FiniteSets, TLC

VARIABLES
    pc,             \* position of the run / of the function under study
    clock,          \* the wall clock, what datetime.now() returns
    ticks,          \* how often the wall clock advanced during the run
    html,           \* the fetched document handed to parse_tide_data
    tide_points,    \* parse_tide_data: the matched points of today's section
    point_idx,      \* parse_tide_data: position of the for loop (1-based)
    tides,          \* the list of tide dicts
    parse_outcome,  \* how parse_tide_data ended: "none", "ok", "no_day", "caught", "raised"
    now,            \* get_current_tide_status / find_next_high_tide: the local `now`
    now_reads,      \* every value datetime.now() returned, in order of the calls
    status,         \* what get_current_tide_status returned
    next_high_idx,  \* what find_next_high_tide returned (NoIndex: None)
    fetch_outcome,  \* "none", "error" (RequestException), "empty", "text"
    reported,       \* messages printed to the console by the error paths
    invoked,        \* the components that were called during the run
    exit_code       \* NoExit while running, then the process exit status

vars == <<pc, clock, ticks, html, tide_points, point_idx, tides, parse_outcome,
          now, now_reads, status, next_high_idx, fetch_outcome, reported,
          invoked, exit_code>>

----------------------------------------------------------------------------
(* Bounds of the model *)

MaxEvents == 3
MaxTime == 2
MaxPoints == 2
MaxTicks == 1
MaxSpan == 4

(* Python's None for a datetime, an index, an exit status *)
NoTime == -1
NoIndex == 0
NoExit == -1

SecondsPerHour == 3600
MinutesPerDay == 24 * 60

----------------------------------------------------------------------------
(* Fractions standing for Python floats *)

Frac(n, d) == [num |-> n, den |-> d]

FracLeq(a, b) == a.num * b.den <= b.num * a.den

FracEq(a, b) == a.num * b.den = b.num * a.den

\* timedelta.total_seconds()
TotalSeconds(delta) == delta * 60

----------------------------------------------------------------------------
(* Height labels: strings as sequences of characters *)

Digits == {"0", "1", "2", "3", "4", "5", "6", "7", "8", "9"}

DigitVal(c) ==
    CASE c = "0" -> 0 [] c = "1" -> 1 [] c = "2" -> 2 [] c = "3" -> 3
      [] c = "4" -> 4 [] c = "5" -> 5 [] c = "6" -> 6 [] c = "7" -> 7
      [] c = "8" -> 8 [] c = "9" -> 9

\* str.replace(old, ""): every occurrence of the character removed
RECURSIVE StrReplace(_, _)
StrReplace(s, old) ==
    IF s = <<>> THEN <<>>
    ELSE IF Head(s) = old THEN StrReplace(Tail(s), old)
    ELSE <<Head(s)>> \o StrReplace(Tail(s), old)

RECURSIVE DigitsValue(_)
DigitsValue(s) ==
    IF s = <<>> THEN 0
    ELSE DigitsValue(SubSeq(s, 1, Len(s) - 1)) * 10 + DigitVal(s[Len(s)])

DotPositions(s) == {i \in 1..Len(s) : s[i] = "."}

\* float(s) succeeds: digits with at most one decimal point and a digit
\* somewhere (signs, exponents, inf and nan are outside the label alphabet)
FloatParses(s) ==
    /\ \A i \in 1..Len(s) : s[i] \in Digits \cup {"."}
    /\ Cardinality(DotPositions(s)) <= 1
    /\ \E i \in 1..Len(s) : s[i] \in Digits

\* float(s) in hundredths, for labels with at most two decimals
FloatValue(s) ==
    IF DotPositions(s) = {} THEN DigitsValue(s) * 100
    ELSE LET d == CHOOSE i \in DotPositions(s) : TRUE
             whole == SubSeq(s, 1, d - 1)
             frac == SubSeq(s, d + 1, Len(s))
             f1 == IF Len(frac) >= 1 THEN DigitVal(frac[1]) ELSE 0
             f2 == IF Len(frac) >= 2 THEN DigitVal(frac[2]) ELSE 0
         IN  DigitsValue(whole) * 100 + f1 * 10 + f2

\* A plausible slip: the unit suffix is not stripped before float()
HeightTextKeepsUnit(height) == height

\* tide["height"].replace("m", "")
HeightText(height) == StrReplace(height, "m")

\* float(...) raises ValueError
HeightParses(height) == FloatParses(HeightText(height))

HeightValue(height) == FloatValue(HeightText(height))

H_050 == <<"0", ".", "5", "0", "m">>
H_18 == <<"1", ".", "8", "m">>
H_bad == <<"n", "/", "a">>

----------------------------------------------------------------------------
(* The calculator: find_next_high_tide and get_current_tide_status *)

\* The test of the loop of find_next_high_tide, with >= for >
IsNextHighNotStrict(tide, t) ==
    tide.type = "HIGH" /\ tide.time # NoTime /\ tide.time >= t

\* tide["type"] == "HIGH" and tide["time"] and tide["time"] > now
IsNextHigh(tide, t) ==
    tide.type = "HIGH" /\ tide.time # NoTime /\ tide.time > t

\* for i, tide in enumerate(tides): ... return i; indexes are 1-based here
RECURSIVE FindFrom(_, _, _)
FindFrom(ts, t, i) ==
    IF i > Len(ts) THEN NoIndex
    ELSE IF IsNextHigh(ts[i], t) THEN i
    ELSE FindFrom(ts, t, i + 1)

find_next_high_tide(ts, t) == FindFrom(ts, t, 1)

\* The scan of get_current_tide_status without its break: it goes on after
\* next_tide is found and later events still replace prev_tide
RECURSIVE ScanNoBreak(_, _, _, _, _)
ScanNoBreak(ts, t, i, prev, next) ==
    IF i > Len(ts) THEN [prev |-> prev, next |-> next]
    ELSE IF ts[i].time = NoTime THEN ScanNoBreak(ts, t, i + 1, prev, next)
    ELSE IF ts[i].time <= t THEN ScanNoBreak(ts, t, i + 1, i, next)
    ELSE IF ts[i].time > t /\ next = NoIndex THEN ScanNoBreak(ts, t, i + 1, prev, i)
    ELSE ScanNoBreak(ts, t, i + 1, prev, next)

\* The for loop of get_current_tide_status from position i on, prev_tide and
\* next_tide held as indexes into the list (NoIndex: None)
RECURSIVE Scan(_, _, _, _, _)
Scan(ts, t, i, prev, next) ==
    IF i > Len(ts) THEN [prev |-> prev, next |-> next]
    ELSE IF ts[i].time = NoTime THEN Scan(ts, t, i + 1, prev, next)
    ELSE IF ts[i].time <= t THEN Scan(ts, t, i + 1, i, next)
    ELSE IF ts[i].time > t /\ next = NoIndex THEN [prev |-> prev, next |-> i]
    ELSE Scan(ts, t, i + 1, prev, next)

\* progress = elapsed / total_duration if total_duration > 0 else 0
Progress(elapsed, total_duration) ==
    IF total_duration > 0 THEN Frac(elapsed, total_duration) ELSE Frac(0, 1)

\* The interpolation started from the wrong end
CurrentHeightFromNext(prev_height, next_height, progress) ==
    Frac(next_height * progress.den + (next_height - prev_height) * progress.num,
         progress.den)

\* current_height = prev_height + (next_height - prev_height) * progress
CurrentHeight(prev_height, next_height, progress) ==
    Frac(prev_height * progress.den + (next_height - prev_height) * progress.num,
         progress.den)

\* The subtraction with its operands exchanged
TimeRemainingSwapped(next_time, t) == t - next_time

\* time_remaining = next_tide["time"] - now
TimeRemaining(next_time, t) == next_time - t

\* hours_remaining = time_remaining.total_seconds() / 3600
HoursRemaining(time_remaining) == Frac(TotalSeconds(time_remaining), SecondsPerHour)

NoStatus == [defined |-> FALSE]

get_current_tide_status(ts, t) ==
    IF Len(ts) < 2 THEN NoStatus
    ELSE
      LET found == Scan(ts, t, 1, NoIndex, NoIndex) IN
      IF found.prev = NoIndex \/ found.next = NoIndex THEN NoStatus
      ELSE
        LET prev_tide == ts[found.prev]
            next_tide == ts[found.next]
            total_duration == TotalSeconds(next_tide.time - prev_tide.time)
            elapsed == TotalSeconds(t - prev_tide.time)
            progress == Progress(elapsed, total_duration)
        IN
        IF ~HeightParses(prev_tide.height) \/ ~HeightParses(next_tide.height)
        THEN NoStatus
        ELSE
          [defined |-> TRUE,
           current_height |-> CurrentHeight(HeightValue(prev_tide.height),
                                            HeightValue(next_tide.height), progress),
           is_rising |-> next_tide.type = "HIGH",
           progress |-> progress,
           prev_tide |-> found.prev,
           next_tide |-> found.next,
           hours_remaining |-> HoursRemaining(TimeRemaining(next_tide.time, t))]

----------------------------------------------------------------------------
(* The calculator on its own: every list of up to MaxEvents tide dicts and  *)
(* every `now` within 0..MaxTime, the list in any order (the code never     *)
(* sorts it and takes the order of the document)                            *)

\* The label of a tide dict whose time_str the calculator never reads
L_calc == [hour |-> 0, minute |-> 0, space |-> FALSE, meridiem |-> ""]

CalcTimes == {NoTime} \cup (0..MaxTime)

CalcTides == [time_str : {L_calc}, time : CalcTimes, height : {H_18, H_bad},
              type : {"HIGH", "LOW"}]

InterpTimes == {NoTime} \cup (0..MaxSpan)

InterpTides == [time_str : {L_calc}, time : InterpTimes, height : {H_050, H_18, H_bad},
                type : {"HIGH", "LOW"}]

TideLists == UNION {[1..n -> CalcTides] : n \in 0..MaxEvents}

InitIdle ==
    /\ clock = 0
    /\ ticks = 0
    /\ html = <<>>
    /\ tide_points = <<>>
    /\ point_idx = 1
    /\ parse_outcome = "none"
    /\ now_reads = <<>>
    /\ status = NoStatus
    /\ next_high_idx = NoIndex
    /\ fetch_outcome = "none"
    /\ reported = <<>>
    /\ invoked = {}
    /\ exit_code = NoExit

InitCalc ==
    /\ InitIdle
    /\ pc = "calc_input"
    /\ tides \in TideLists
    /\ now \in 0..MaxTime

\* A list of two events, with instants up to MaxSpan apart and three
\* height labels
InitInterp ==
    /\ InitIdle
    /\ pc = "calc_input"
    /\ tides \in [1..2 -> InterpTides]
    /\ now \in 0..MaxSpan

\* Both queries are made with the same `now`
Query ==
    /\ pc = "calc_input"
    /\ pc' = "calc_done"
    /\ status' = get_current_tide_status(tides, now)
    /\ next_high_idx' = find_next_high_tide(tides, now)
    /\ UNCHANGED <<clock, ticks, html, tide_points, point_idx, tides, parse_outcome,
                   now, now_reads, fetch_outcome, reported, invoked, exit_code>>

\* The same list is queried again a minute later, while an event is ahead
MoveNow ==
    /\ pc = "calc_done"
    /\ \E i \in 1..Len(tides) : tides[i].time > now
    /\ now' = now + 1
    /\ status' = get_current_tide_status(tides, now')
    /\ next_high_idx' = find_next_high_tide(tides, now')
    /\ UNCHANGED <<pc, clock, ticks, html, tide_points, point_idx, tides, parse_outcome,
                   now_reads, fetch_outcome, reported, invoked, exit_code>>

NextCalc == Query \/ MoveNow

SpecCalc == InitCalc /\ [][NextCalc]_vars

SpecInterp == InitInterp /\ [][NextCalc]_vars

----------------------------------------------------------------------------
(* The document.  html is the sequence of the day sections (li class="day") *)
(* in document order; a section is the sequence of its li elements; an li   *)
(* has its set of classes, and its h3 and span sub-elements as sequences of *)
(* at most one text (empty: find() returns None).  A time label is held by  *)
(* its parts: "6:00 AM" is hour 6, minute 0, a space, meridiem "AM".        *)

L_6am == [hour |-> 6, minute |-> 0, space |-> TRUE, meridiem |-> "AM"]
L_1159pm == [hour |-> 11, minute |-> 59, space |-> FALSE, meridiem |-> "PM"]
L_bad == [hour |-> 25, minute |-> 0, space |-> TRUE, meridiem |-> "XM"]

\* _strptime's %I, %M and %p (am and pm of the C locale); the blank of the
\* format is \s+, so it needs a blank in the label, and no blank of the
\* format admits none
Strptime(label, format_has_space) ==
    /\ label.hour \in 1..12
    /\ label.minute \in 0..59
    /\ label.meridiem \in {"AM", "PM"}
    /\ label.space = format_has_space

\* The minute of the day of a parsed label: 12 AM is 0, 12 PM is 12
MinuteOfDay(label) ==
    ((label.hour % 12) + (IF label.meridiem = "PM" THEN 12 ELSE 0)) * 60 + label.minute

\* tide_time.replace(year=now.year, month=now.month, day=now.day)
ReplaceDate(minute_of_day, t) == (t \div MinutesPerDay) * MinutesPerDay + minute_of_day

\* datetime.strptime(time_str, "%I:%M %p"), then without the space
TimeParses(label) == Strptime(label, TRUE) \/ Strptime(label, FALSE)

\* class_=lambda x: x and ("point-high" in x or "point-low" in x)
IsTidePoint(li) == "point-high" \in li.class \/ "point-low" \in li.class

\* A point is dropped when its time label matches neither format
PointSkippedOrUnparsed(point) ==
    point.h3 = <<>> \/ point.span = <<>> \/ ~TimeParses(point.h3[1])

\* if not time_elem: continue / if not height_elem: continue
PointSkipped(point) == point.h3 = <<>> \/ point.span = <<>>

\* The dict appended for a point, datetime.now() returning t
PointTide(point, t) ==
    [time_str |-> point.h3[1],
     time |-> IF TimeParses(point.h3[1])
              THEN ReplaceDate(MinuteOfDay(point.h3[1]), t)
              ELSE NoTime,
     height |-> point.span[1],
     type |-> IF "point-high" \in point.class THEN "HIGH" ELSE "LOW"]

\* The day section that soup.find("li", class_="day") returns: the first
FirstDaySection(doc) == doc[1]

\* A slip: the last day section is taken for today
LastDaySection(doc) == doc[Len(doc)]

TodaySection(doc) == FirstDaySection(doc)

\* parse_tide_data is entered: soup = BeautifulSoup(html, "lxml") builds the tree
BuildTree ==
    /\ pc = "parse"
    /\ pc' = "parse_find_day"
    /\ UNCHANGED <<clock, ticks, html, tide_points, point_idx, tides, parse_outcome,
                   now, now_reads, status, next_high_idx, fetch_outcome, reported,
                   invoked, exit_code>>

\* ... or raises (bs4.FeatureNotFound when the lxml builder is missing): the
\* statement stands before the try, so the exception leaves parse_tide_data
BuildTreeRaises ==
    /\ pc = "parse"
    /\ pc' = "parse_raised"
    /\ parse_outcome' = "raised"
    /\ UNCHANGED <<clock, ticks, html, tide_points, point_idx, tides,
                   now, now_reads, status, next_high_idx, fetch_outcome, reported,
                   invoked, exit_code>>

\* today_section = soup.find(...); if not today_section: report, return []
NoDaySection ==
    /\ pc = "parse_find_day"
    /\ html = <<>>
    /\ reported' = Append(reported, "Could not find tide data on the page.")
    /\ tides' = <<>>
    /\ parse_outcome' = "no_day"
    /\ pc' = "parse_returned"
    /\ UNCHANGED <<clock, ticks, html, tide_points, point_idx, now, now_reads,
                   status, next_high_idx, fetch_outcome, invoked, exit_code>>

\* tide_points = today_section.find_all(...)
FindTidePoints ==
    /\ pc = "parse_find_day"
    /\ html # <<>>
    /\ tide_points' = SelectSeq(TodaySection(html), IsTidePoint)
    /\ point_idx' = 1
    /\ pc' = "parse_loop"
    /\ UNCHANGED <<clock, ticks, html, tides, parse_outcome, now, now_reads,
                   status, next_high_idx, fetch_outcome, reported, invoked, exit_code>>

\* One pass of the for loop: a point without h3 or span is skipped; else the
\* time is parsed, datetime.now() is read when a format matched, and the
\* dict is appended
ProcessPoint ==
    /\ pc = "parse_loop"
    /\ point_idx <= Len(tide_points)
    /\ LET point == tide_points[point_idx] IN
         IF PointSkipped(point)
         THEN UNCHANGED <<tides, now_reads>>
         ELSE /\ tides' = Append(tides, PointTide(point, clock))
              /\ now_reads' = IF TimeParses(point.h3[1])
                              THEN Append(now_reads, clock) ELSE now_reads
    /\ point_idx' = point_idx + 1
    /\ UNCHANGED <<pc, clock, ticks, html, tide_points, parse_outcome, now,
                   status, next_high_idx, fetch_outcome, reported, invoked, exit_code>>

\* Anything raised inside the try: except Exception: report, return []
ParseErrorCaught ==
    /\ pc \in {"parse_find_day", "parse_loop"}
    /\ reported' = Append(reported, "Error parsing tide data")
    /\ tides' = <<>>
    /\ parse_outcome' = "caught"
    /\ pc' = "parse_returned"
    /\ UNCHANGED <<clock, ticks, html, tide_points, point_idx, now, now_reads,
                   status, next_high_idx, fetch_outcome, invoked, exit_code>>

\* The loop is over: return tides
ReturnTides ==
    /\ pc = "parse_loop"
    /\ point_idx > Len(tide_points)
    /\ parse_outcome' = "ok"
    /\ pc' = "parse_returned"
    /\ UNCHANGED <<clock, ticks, html, tide_points, point_idx, tides, now, now_reads,
                   status, next_high_idx, fetch_outcome, reported, invoked, exit_code>>

NextParse ==
    \/ BuildTree
    \/ BuildTreeRaises
    \/ NoDaySection
    \/ FindTidePoints
    \/ ProcessPoint
    \/ ParseErrorCaught
    \/ ReturnTides

(* The extractor on its own: every document of up to two day sections, the  *)
(* first of up to MaxPoints li elements                                     *)

ListItems == [class : {{"point-high"}, {"point-low"}, {"point-high", "point-low"}, {"other"}},
              h3 : {<<>>, <<L_6am>>, <<L_1159pm>>, <<L_bad>>},
              span : {<<>>, <<H_18>>}]

Sections == UNION {[1..n -> ListItems] : n \in 0..MaxPoints}

\* The section of another day that follows today's
NextDay == <<[class |-> {"point-high"}, h3 |-> <<L_6am>>, span |-> <<H_050>>]>>

Documents == {<<>>} \cup {<<s>> : s \in Sections} \cup {<<s, NextDay>> : s \in Sections}

\* The wall clock while the extractor is studied: 9:00 AM of day 1
ExtractClock == MinutesPerDay + 9 * 60

InitExtract ==
    /\ pc = "parse"
    /\ clock = ExtractClock
    /\ ticks = 0
    /\ html \in Documents
    /\ tide_points = <<>>
    /\ point_idx = 1
    /\ tides = <<>>
    /\ parse_outcome = "none"
    /\ now = 0
    /\ now_reads = <<>>
    /\ status = NoStatus
    /\ next_high_idx = NoIndex
    /\ fetch_outcome = "text"
    /\ reported = <<>>
    /\ invoked = {"extractor"}
    /\ exit_code = NoExit

SpecExtract == InitExtract /\ [][NextParse]_vars


----------------------------------------------------------------------------
(* The run: main, display_tides, display_current_tide.  The wall clock may  *)
(* advance between any two steps of the run.                                *)

\* requests.get raises a RequestException: fetch_tide_data reports it and
\* returns None; main exits with 1
FetchFails ==
    /\ pc = "main"
    /\ fetch_outcome' = "error"
    /\ reported' = Append(reported, "Error fetching tide data")
    /\ exit_code' = 1
    /\ pc' = "exited"
    /\ UNCHANGED <<clock, ticks, html, tide_points, point_idx, tides, parse_outcome,
                   now, now_reads, status, next_high_idx, invoked>>

\* The response has an empty body: response.text is "", `not html` holds and
\* main exits with 1, nothing reported
FetchEmpty ==
    /\ pc = "main"
    /\ fetch_outcome' = "empty"
    /\ exit_code' = 1
    /\ pc' = "exited"
    /\ UNCHANGED <<clock, ticks, html, tide_points, point_idx, tides, parse_outcome,
                   now, now_reads, status, next_high_idx, reported, invoked>>

\* The li elements of the documents of a run
RunItems ==
    {[class |-> {"point-low"}, h3 |-> <<L_6am>>, span |-> <<H_050>>],
     [class |-> {"point-high"}, h3 |-> <<L_1159pm>>, span |-> <<H_18>>],
     [class |-> {"point-high"}, h3 |-> <<L_bad>>, span |-> <<H_18>>],
     [class |-> {"point-low"}, h3 |-> <<>>, span |-> <<H_050>>]}

RunDocuments == {<<>>} \cup {<<s>> : s \in UNION {[1..n -> RunItems] : n \in 0..MaxPoints}}

\* The wall clock at the start of a run, on day 1: 9:00 AM, 11:58 PM, 11:59 PM
RunClocks == {MinutesPerDay + 9 * 60, 2 * MinutesPerDay - 2, 2 * MinutesPerDay - 1}

\* The fetch returns the text of a document: tides = parse_tide_data(html)
FetchText ==
    /\ pc = "main"
    /\ \E doc \in RunDocuments : html' = doc
    /\ fetch_outcome' = "text"
    /\ invoked' = invoked \cup {"extractor"}
    /\ pc' = "parse"
    /\ UNCHANGED <<clock, ticks, tide_points, point_idx, tides, parse_outcome,
                   now, now_reads, status, next_high_idx, reported, exit_code>>

\* The exception of parse_tide_data is caught nowhere: the interpreter prints
\* the traceback and exits with 1
UncaughtException ==
    /\ pc = "parse_raised"
    /\ exit_code' = 1
    /\ pc' = "exited"
    /\ UNCHANGED <<clock, ticks, html, tide_points, point_idx, tides, parse_outcome,
                   now, now_reads, status, next_high_idx, fetch_outcome, reported,
                   invoked>>

\* if not tides: report, sys.exit(1)
NoTides ==
    /\ pc = "parse_returned"
    /\ tides = <<>>
    /\ reported' = Append(reported, "Failed to parse tide data.")
    /\ exit_code' = 1
    /\ pc' = "exited"
    /\ UNCHANGED <<clock, ticks, html, tide_points, point_idx, tides, parse_outcome,
                   now, now_reads, status, next_high_idx, fetch_outcome, invoked>>

\* display_tides(tides): now = datetime.now() for the date of the title
DisplayTides ==
    /\ pc = "parse_returned"
    /\ tides # <<>>
    /\ invoked' = invoked \cup {"presenter"}
    /\ now_reads' = Append(now_reads, clock)
    /\ pc' = "display_current_tide"
    /\ UNCHANGED <<clock, ticks, html, tide_points, point_idx, tides, parse_outcome,
                   now, status, next_high_idx, fetch_outcome, reported, exit_code>>

\* display_current_tide: status = get_current_tide_status(tides), which reads
\* datetime.now() itself
DisplayCurrentTide ==
    /\ pc = "display_current_tide"
    /\ invoked' = invoked \cup {"calculator"}
    /\ now' = clock
    /\ now_reads' = Append(now_reads, clock)
    /\ status' = get_current_tide_status(tides, clock)
    /\ pc' = "find_next_high_tide"
    /\ UNCHANGED <<clock, ticks, html, tide_points, point_idx, tides, parse_outcome,
                   next_high_idx, fetch_outcome, reported, exit_code>>

\* next_high_idx = find_next_high_tide(tides), which reads datetime.now() itself
FindNextHighTide ==
    /\ pc = "find_next_high_tide"
    /\ now' = clock
    /\ now_reads' = Append(now_reads, clock)
    /\ next_high_idx' = find_next_high_tide(tides, clock)
    /\ pc' = "render"
    /\ UNCHANGED <<clock, ticks, html, tide_points, point_idx, tides, parse_outcome,
                   status, fetch_outcome, reported, invoked, exit_code>>

\* The table and the summary are printed; main returns: exit status 0
Render ==
    /\ pc = "render"
    /\ exit_code' = 0
    /\ pc' = "exited"
    /\ UNCHANGED <<clock, ticks, html, tide_points, point_idx, tides, parse_outcome,
                   now, now_reads, status, next_high_idx, fetch_outcome, reported,
                   invoked>>

\* A minute goes by on the wall clock
Tick ==
    /\ pc # "exited"
    /\ ticks < MaxTicks
    /\ ticks' = ticks + 1
    /\ clock' = clock + 1
    /\ UNCHANGED <<pc, html, tide_points, point_idx, tides, parse_outcome,
                   now, now_reads, status, next_high_idx, fetch_outcome, reported,
                   invoked, exit_code>>

Init ==
    /\ pc = "main"
    /\ clock \in RunClocks
    /\ ticks = 0
    /\ html = <<>>
    /\ tide_points = <<>>
    /\ point_idx = 1
    /\ tides = <<>>
    /\ parse_outcome = "none"
    /\ now = 0
    /\ now_reads = <<>>
    /\ status = NoStatus
    /\ next_high_idx = NoIndex
    /\ fetch_outcome = "none"
    /\ reported = <<>>
    /\ invoked = {}
    /\ exit_code = NoExit

Next ==
    \/ FetchFails
    \/ FetchEmpty
    \/ FetchText
    \/ NextParse
    \/ UncaughtException
    \/ NoTides
    \/ DisplayTides
    \/ DisplayCurrentTide
    \/ FindNextHighTide
    \/ Render
    \/ Tick

Spec == Init /\ [][Next]_vars


----------------------------------------------------------------------------
(* Properties of the calculator (SpecCalc, SpecInterp) *)

HasFuture(ts, t, i) == ts[i].time # NoTime /\ ts[i].time > t

HasPast(ts, t, i) == ts[i].time # NoTime /\ ts[i].time <= t

FutureHighs(ts, t) == {i \in 1..Len(ts) : ts[i].type = "HIGH" /\ HasFuture(ts, t, i)}

IsHigh(tide) == tide.type = "HIGH"

HighsUpTo(ts, i) == Cardinality({j \in 1..i : ts[j].type = "HIGH"})

\* C1: find_next_high_tide returns the smallest index of a HIGH event whose
\* instant is present and strictly after now, and None exactly when there is
\* none; the LOW events do not matter: with them removed, the same HIGH event
\* is found.
C1_NextHighIsFirstFutureHigh ==
    pc = "calc_done" =>
        /\ (next_high_idx = NoIndex) <=> (FutureHighs(tides, now) = {})
        /\ next_high_idx # NoIndex =>
              /\ next_high_idx \in FutureHighs(tides, now)
              /\ \A j \in FutureHighs(tides, now) : next_high_idx <= j
        /\ LET among_highs == find_next_high_tide(SelectSeq(tides, IsHigh), now)
           IN  IF next_high_idx = NoIndex THEN among_highs = NoIndex
               ELSE among_highs = HighsUpTo(tides, next_high_idx)

\* A HIGH event is returned although a LOW event with a later instant than
\* now and a HIGH event that is over or has no instant stand before it.
C1_Witness ==
    /\ pc = "calc_done"
    /\ next_high_idx = 3
    /\ tides[1].type = "LOW" /\ HasFuture(tides, now, 1)
    /\ tides[2].type = "HIGH" /\ ~HasFuture(tides, now, 2)

\* The events are in chronological order wherever they have an instant.
Chronological(ts) ==
    \A i, j \in 1..Len(ts) :
        (i < j /\ ts[i].time # NoTime /\ ts[j].time # NoTime) => ts[i].time <= ts[j].time

\* The height labels that read as a number of metres: "0.50m", "1.8m"
NumericLabels == {H_050, H_18}

BetweenConsecutive(ts, t) ==
    \E i \in 1..(Len(ts) - 1) :
        /\ ts[i].time # NoTime /\ ts[i + 1].time # NoTime
        /\ ts[i].height \in NumericLabels /\ ts[i + 1].height \in NumericLabels
        /\ ts[i].time < t /\ t < ts[i + 1].time

StatusContract(ts, t, st) ==
    /\ Len(ts) < 2 => ~st.defined
    /\ (Len(ts) >= 1 /\ ts[1].time # NoTime /\ t < ts[1].time) => ~st.defined
    /\ (Len(ts) >= 1 /\ ts[Len(ts)].time # NoTime /\ t > ts[Len(ts)].time) => ~st.defined
    /\ BetweenConsecutive(ts, t) => st.defined

\* C2 as stated: get_current_tide_status returns None for fewer than 2 events
\* and for a now before the first or after the last event, and a status for a
\* now strictly between two consecutive events with instants and numeric
\* heights -- for every list.
C2_StatusContractAnyList ==
    pc = "calc_done" => StatusContract(tides, now, status)

\* C2 amended: the same, for lists whose events are in chronological order.
C2_StatusContractChronological ==
    (pc = "calc_done" /\ Chronological(tides)) => StatusContract(tides, now, status)

\* Three events in order, now strictly between the second and the third, and
\* a status is returned.
C2_Witness ==
    /\ pc = "calc_done"
    /\ Len(tides) = 3
    /\ Chronological(tides)
    /\ tides[2].time # NoTime /\ tides[3].time # NoTime
    /\ tides[2].time < now /\ now < tides[3].time
    /\ status.defined

\* C3: in a returned status, next_tide is the first event of the list whose
\* instant is present and after now, and prev_tide is the last event before
\* it whose instant is present and not after now; no event without an
\* instant and no event behind next_tide is chosen.
C3_BracketIsFirstFutureLastPast ==
    (pc = "calc_done" /\ status.defined) =>
        LET n == status.next_tide
            p == status.prev_tide
        IN  /\ n \in 1..Len(tides) /\ p \in 1..Len(tides)
            /\ HasFuture(tides, now, n)
            /\ \A j \in 1..Len(tides) : HasFuture(tides, now, j) => n <= j
            /\ p < n
            /\ HasPast(tides, now, p)
            /\ \A j \in (p + 1)..(n - 1) : ~HasPast(tides, now, j)

\* A status is returned although an event behind next_tide is not after now
\* (it is not taken as prev_tide).
C3_Witness ==
    /\ pc = "calc_done"
    /\ status.defined
    /\ \E j \in 1..Len(tides) : j > status.next_tide /\ HasPast(tides, now, j)

\* C5: in every returned status, for every list in any order, progress is
\* within 0..1 and hours_remaining is not negative; a total duration of zero
\* or less gives the progress 0.
C5_ProgressAndHoursInRange ==
    /\ (pc = "calc_done" /\ status.defined) =>
          /\ status.progress.den > 0
          /\ 0 <= status.progress.num
          /\ status.progress.num <= status.progress.den
          /\ status.hours_remaining.den > 0
          /\ status.hours_remaining.num >= 0
    /\ \A e \in 0..MaxTime, d \in (0 - MaxTime)..0 :
          /\ Progress(TotalSeconds(e), TotalSeconds(d)).num = 0
          /\ Progress(TotalSeconds(e), TotalSeconds(d)).den > 0

\* A status is returned for a list that is not in chronological order.
C5_Witness ==
    /\ pc = "calc_done"
    /\ status.defined
    /\ ~Chronological(tides)

HeightBetween(h, a, b) ==
    \/ FracLeq(Frac(a, 1), h) /\ FracLeq(h, Frac(b, 1))
    \/ FracLeq(Frac(b, 1), h) /\ FracLeq(h, Frac(a, 1))

SamePair(s1, s2) ==
    /\ s1.defined /\ s2.defined
    /\ s1.prev_tide = s2.prev_tide /\ s1.next_tide = s2.next_tide

\* C4: for one bracketing pair with numeric heights, progress is 0 at the
\* instant of prev_tide and never decreases as now moves on, and the current
\* height starts at the height of prev_tide, moves towards the height of
\* next_tide and stays between the two heights.
C4_InterpolationMonotonic ==
    /\ [](status.defined =>
            LET prev_height == HeightValue(tides[status.prev_tide].height)
                next_height == HeightValue(tides[status.next_tide].height)
            IN  /\ HeightBetween(status.current_height, prev_height, next_height)
                /\ now = tides[status.prev_tide].time =>
                      /\ status.progress.num = 0
                      /\ FracEq(status.current_height, Frac(prev_height, 1))
                \* half way from 0.50m to 1.80m the height is 1.15m
                /\ ( /\ tides[status.prev_tide].height = H_050
                     /\ tides[status.next_tide].height = H_18
                     /\ FracEq(status.progress, Frac(1, 2)) )
                      => FracEq(status.current_height, Frac(115, 1)))
    /\ [][(now' > now /\ SamePair(status, status')) =>
            LET prev_height == HeightValue(tides[status.prev_tide].height)
                next_height == HeightValue(tides[status.next_tide].height)
            IN  /\ FracLeq(status.progress, status'.progress)
                /\ FracLeq(status'.progress, Frac(1, 1))
                /\ IF prev_height <= next_height
                   THEN FracLeq(status.current_height, status'.current_height)
                   ELSE FracLeq(status'.current_height, status.current_height)]_vars

\* now has moved on by two minutes from the instant of prev_tide within a
\* pair whose heights differ: the progress is strictly between 0 and 1.
C4_Witness ==
    /\ pc = "calc_done"
    /\ status.defined
    /\ now = tides[status.prev_tide].time + 2
    /\ 0 < status.progress.num /\ status.progress.num < status.progress.den
    /\ tides[status.prev_tide].height # tides[status.next_tide].height

----------------------------------------------------------------------------
(* Properties of the extractor (SpecExtract) *)

\* C7: parse_tide_data never raises: every failure, that of building the
\* tree included, is reported to the console and gives the empty list.
C7_ExtractNeverRaises ==
    /\ parse_outcome # "raised"
    /\ parse_outcome \in {"no_day", "caught"} => (tides = <<>> /\ reported # <<>>)

\* The li elements of today's section that are tide points with both an h3
\* and a span, as positions in the section
EmittingPositions(section) ==
    {i \in 1..Len(section) :
        /\ "point-high" \in section[i].class \/ "point-low" \in section[i].class
        /\ section[i].h3 # <<>>
        /\ section[i].span # <<>>}

\* The k-th of them in document order
KthEmitting(section, k) ==
    CHOOSE i \in EmittingPositions(section) :
        Cardinality({j \in EmittingPositions(section) : j <= i}) = k

\* A label of the 12-hour clock, with or without the space
ClockLabel(label) ==
    label.hour \in 1..12 /\ label.minute \in 0..59 /\ label.meridiem \in {"AM", "PM"}

\* C8: when the extraction does not fail, the list holds one event for each
\* tide point of today's section that has both an h3 and a span, in document
\* order, with the labels as they stand in the document; a point without one
\* of them is left out, and a point whose time label matches neither format
\* is in the list with no instant.
C8_OneEventPerCompletePoint ==
    (pc = "parse_returned" /\ parse_outcome = "ok") =>
        LET today == html[1] IN
        /\ Len(tides) = Cardinality(EmittingPositions(today))
        /\ \A k \in 1..Len(tides) :
              LET li == today[KthEmitting(today, k)] IN
              /\ tides[k].time_str = li.h3[1]
              /\ tides[k].height = li.span[1]
              /\ tides[k].type = (IF "point-high" \in li.class THEN "HIGH" ELSE "LOW")
              /\ (tides[k].time = NoTime) <=> ~ClockLabel(li.h3[1])
              /\ tides[k].time # NoTime =>
                    /\ tides[k].time \div MinutesPerDay = clock \div MinutesPerDay
                    /\ tides[k].time % MinutesPerDay = MinuteOfDay(li.h3[1])

\* The extraction returned one event, with a label that matches neither
\* format, after leaving out a point that lacks its h3 or its span; another
\* day's section follows in the document.
C8_Witness ==
    /\ pc = "parse_returned" /\ parse_outcome = "ok"
    /\ Len(html) = 2
    /\ Len(tides) = 1
    /\ tides[1].time = NoTime
    /\ PointSkipped(tide_points[1])

----------------------------------------------------------------------------
(* Properties of the run (Spec) *)

\* C6: within one run every calculation (the anchoring of the event instants,
\* the date of the title, get_current_tide_status, find_next_high_tide) uses
\* one and the same value of now, read once, even if the wall clock advances
\* during the run.
C6_OneNowPerRun ==
    \A i, j \in 1..Len(now_reads) : now_reads[i] = now_reads[j]

\* C9: the run exits with 1 when the fetch fails or the extraction yields no
\* event, and with 0 otherwise, after the display; when the fetch fails
\* neither extractor nor calculator is called, and when the extraction yields
\* no event the presenter is not called.
C9_ExitCodes ==
    pc = "exited" =>
        LET fetch_failed == fetch_outcome = "error"
            no_events == parse_outcome \in {"ok", "no_day", "caught"} /\ tides = <<>>
        IN  /\ exit_code \in {0, 1}
            /\ (exit_code = 1) <=> (fetch_failed \/ no_events)
            /\ exit_code = 0 => "presenter" \in invoked
            /\ fetch_failed => invoked \cap {"extractor", "calculator"} = {}
            /\ no_events => "presenter" \notin invoked

\* C10: in every run, when the status shown is rising (its next_tide is a
\* HIGH event), find_next_high_tide returns the index of that next_tide.
C10_RisingTowardsNextHigh ==
    (exit_code = 0 /\ status.defined /\ status.is_rising) =>
        next_high_idx = status.next_tide

====
